---- MODULE Spec2Model ----
\* Model of app.py: a Streamlit script that authenticates to Google Drive,
\* searches a folder tree for spreadsheets, downloads and concatenates them.
\* Strings are sequences of one-character strings, so that lower(), "in",
\* endswith() and the f-string that builds a path are computed, not assumed.
EXTENDS Integers, Sequences, FiniteSets, TLC

\* ---------------------------------------------------------------- bounds
\* Deepest nesting of recursive_search frames the interpreter allows; one more
\* call raises RecursionError.  Larger than any acyclic nesting of FolderIds.
MaxDepth == 4
\* Most rows one downloaded spreadsheet holds.
MaxRows == 2

\* ---------------------------------------------------------------- the Drive account
FolderIds == {1, 2, 3}
FileIds == {4, 5}
Nodes == FolderIds \cup FileIds

Str(a, b, c) == <<a, b, c>>
extension == <<".", "x">>
Titles == {Str("t", ".", "x"), Str("T", ".", "x"), Str("t", ".", "X"), Str("q", ".", "x")}
Keywords == {<<"t">>, <<"Q">>}
\* Titles of the folders: folder 2 is named like a matching spreadsheet.
FolderTitle == [f \in FolderIds |-> IF f = 1 THEN <<"T">> ELSE IF f = 2 THEN Str("t", ".", "x") ELSE <<"q">>]

None == "None"

\* ---------------------------------------------------------------- str methods
LowerChar(c) == IF c = "T" THEN "t" ELSE IF c = "Q" THEN "q" ELSE IF c = "X" THEN "x" ELSE c
Lower(s) == [k \in 1..Len(s) |-> LowerChar(s[k])]
Contains(sub, s) == \E k \in 0..(Len(s) - Len(sub)) : SubSeq(s, k + 1, k + Len(sub)) = sub
EndsWith(s, suf) == Len(s) >= Len(suf) /\ SubSeq(s, Len(s) - Len(suf) + 1, Len(s)) = suf
\* f"{current_path}/{file['title']}"
FilePath(current_path, t) == current_path \o <<"/">> \o t

VARIABLES
  driveFolders,  \* folders present in the account
  parents,       \* node -> set of folders that list it ('id' in parents)
  title,         \* node -> title
  hasUrl,        \* node -> whether its metadata carries downloadUrl (no folder does)
  creds,         \* credentials.json: "none" | "expired" | "valid"
  secrets,       \* client_secrets.json exists
  session,       \* st.session_state
  widget,        \* current values of the sidebar widgets
  rendered,      \* buttons the last finished run left on the page
  click,         \* what started the running script: "load" | "connect" | "search" | "widget" | "rerun"
  pc,            \* position of the script
  drive,         \* main's local: None or "drive"
  auth,          \* calls of authenticate_drive made by this run
  folder_id, selected_folder, keyword,   \* main's locals
  stack,         \* frames of recursive_search
  found_files,   \* find_files' list
  i,             \* position of load_excel_files' loop
  dfs,           \* load_excel_files' list of frames
  results,       \* what happened to each found file: "skipped" | "failed" | rows
  final_df,      \* load_data's first result
  exc,           \* exception that left main uncaught in this run
  ui,            \* st.* messages of this run
  ops,           \* Drive / HTTP requests of this run
  hist           \* bookkeeping of the session: presses, runs, the last finished run

vars == <<driveFolders, parents, title, hasUrl, creds, secrets, session, widget, rendered,
          click, pc, drive, auth, folder_id, selected_folder, keyword, stack, found_files,
          i, dfs, results, final_df, exc, ui, ops, hist>>

driveVars == <<driveFolders, parents, title, hasUrl>>
sessVars == <<session, widget, rendered, click, hist>>
authVars == <<creds, secrets, drive, auth>>
argVars == <<folder_id, selected_folder, keyword>>
loadVars == <<i, dfs, results, final_df>>

\* a DataFrame is its sequence of rows; load_data's None is a frame of its own
NoFrame == [isNone |-> TRUE, rows |-> <<>>]
DataFrame(rows) == [isNone |-> FALSE, rows |-> rows]

\* ---------------------------------------------------------------- Drive listing
RECURSIVE SortedSeq(_)
SortedSeq(S) ==
  IF S = {} THEN <<>>
  ELSE LET m == CHOOSE x \in S : \A y \in S : x <= y IN <<m>> \o SortedSeq(S \ {m})

IsFolder(n) == n \in FolderIds
Present(n) == n \in FileIds \/ n \in driveFolders
\* drive.ListFile({'q': "'<id>' in parents and trashed = false"}).GetList()
ListFile(fid) == SortedSeq({n \in Nodes : Present(n) /\ fid \in parents[n]})

\* ---------------------------------------------------------------- the script runner
\* load_data was entered in this run (find_files lists the start folder first)
Loaded == \E k \in 1..Len(ops) : ops[k][1] = "list"

\* the record kept of a run that stops: how is "end" | "exception" | "rerun",
\* at is the position it stopped at
Finished(how) ==
  [click |-> click, pressedAtStart |-> hist.pressedAtStart, loaded |-> Loaded, how |-> how,
   at |-> pc]

\* the script stops (return from main, or an uncaught exception)
EndRun(how) == hist' = [hist EXCEPT !.last = Finished(how)]

\* ---------------------------------------------------------------- find_files
Frame(fid, path) == [fid |-> fid, path |-> path, file_list |-> ListFile(fid), idx |-> 1]

FileInfo(n, path) ==
  [name |-> title[n], path |-> path, id |-> n, download_url |-> IF hasUrl[n] THEN n ELSE 0]

\* load_data's call of find_files: found_files = [] and the first recursive_search
FindFiles ==
  /\ pc = "load_data"
  /\ found_files' = <<>>
  /\ stack' = <<Frame(folder_id, <<>>)>>
  /\ ops' = Append(ops, <<"list", folder_id>>)
  /\ pc' = "find"
  /\ UNCHANGED <<driveVars, sessVars, authVars, argVars, loadVars, exc, ui>>

Top == stack[Len(stack)]
Advance(st) == [st EXCEPT ![Len(st)].idx = @ + 1]

\* a second visit of a folder is skipped
EntersFolderOnce(file) ==
  IsFolder(file) /\ ~\E k \in 1..Len(ops) : ops[k] = <<"list", file>>
\* line 62: file['mimeType'] == 'application/vnd.google-apps.folder'
EntersFolder(file) == IsFolder(file)

\* the keyword is compared as typed
MatchesCaseSensitive(kw, t, ext) == Contains(kw, t) /\ EndsWith(t, ext)
\* keyword.lower() in file['title'].lower() and file['title'].endswith(extension)
Matches(kw, t, ext) == Contains(Lower(kw), Lower(t)) /\ EndsWith(t, ext)

\* the keyword stored at the press of the button
StoredKeyword == session.keyword
\* the keyword main passes to load_data at line 151
SearchKeyword == keyword

\* one iteration of "for file in file_list" in the innermost frame, folder case:
\* the recursive call, or RecursionError when the interpreter has no frame left
SearchFolder ==
  /\ pc = "find" /\ stack # <<>> /\ Top.idx <= Len(Top.file_list)
  /\ LET file == Top.file_list[Top.idx]
         file_path == FilePath(Top.path, title[file])
     IN /\ EntersFolder(file)
        /\ IF Len(stack) >= MaxDepth
           THEN /\ exc' = "RecursionError"
                /\ pc' = "idle"
                /\ stack' = <<>>
                /\ EndRun("exception")
                /\ UNCHANGED ops
           ELSE /\ stack' = Append(Advance(stack), Frame(file, file_path))
                /\ ops' = Append(ops, <<"list", file>>)
                /\ UNCHANGED <<exc, pc, hist>>
  /\ UNCHANGED <<driveVars, session, widget, rendered, click, authVars, argVars, loadVars,
                 found_files, ui>>

\* one iteration of "for file in file_list" in the innermost frame, file case
SearchFile ==
  /\ pc = "find" /\ stack # <<>> /\ Top.idx <= Len(Top.file_list)
  /\ LET file == Top.file_list[Top.idx]
         file_path == FilePath(Top.path, title[file])
     IN /\ ~EntersFolder(file)
        /\ found_files' = IF Matches(SearchKeyword, title[file], extension)
                          THEN Append(found_files, FileInfo(file, file_path))
                          ELSE found_files
  /\ stack' = Advance(stack)
  /\ UNCHANGED <<driveVars, sessVars, authVars, argVars, loadVars, pc, exc, ui, ops>>

\* the loop of the innermost frame is over: recursive_search returns
SearchReturn ==
  /\ pc = "find" /\ stack # <<>> /\ Top.idx > Len(Top.file_list)
  /\ stack' = SubSeq(stack, 1, Len(stack) - 1)
  /\ UNCHANGED <<driveVars, sessVars, authVars, argVars, loadVars, found_files, pc, exc, ui, ops>>

\* ---------------------------------------------------------------- load_data, load_excel_files
\* find_files returns; load_data returns (None, None) on an empty list and
\* otherwise enters load_excel_files
FindReturn ==
  /\ pc = "find" /\ stack = <<>>
  /\ IF found_files = <<>>
     THEN /\ final_df' = NoFrame
          /\ pc' = "display"
          /\ UNCHANGED <<i, dfs, results>>
     ELSE /\ i' = 1
          /\ dfs' = <<>>
          /\ results' = <<>>
          /\ pc' = "load"
          /\ UNCHANGED final_df
  /\ UNCHANGED <<driveVars, sessVars, authVars, argVars, stack, found_files, exc, ui, ops>>

\* pd.read_excel of a downloaded workbook of file n holding k rows
ReadExcel(n, k) == [j \in 1..k |-> <<n, j>>]

\* the failed file is asked for again
RetryFailed(k) == k
\* the except branch falls through to the next file_info
AfterFailure(k) == k + 1

\* "if not download_url": st.warning and continue
LoadSkip ==
  /\ pc = "load" /\ i <= Len(found_files)
  /\ found_files[i].download_url = 0
  /\ ui' = Append(ui, <<"warning", "download", i>>)
  /\ results' = Append(results, [status |-> "skipped", rows |-> <<>>])
  /\ i' = i + 1
  /\ UNCHANGED <<driveVars, sessVars, authVars, argVars, stack, found_files, dfs, final_df,
                 pc, exc, ops>>

\* requests.get or pd.read_excel raises: the except branch warns
LoadFail ==
  /\ pc = "load" /\ i <= Len(found_files)
  /\ found_files[i].download_url # 0
  /\ ops' = Append(ops, <<"get", i>>)
  /\ ui' = Append(ui, <<"warning", "load", i>>)
  /\ results' = Append(results, [status |-> "failed", rows |-> <<>>])
  /\ i' = AfterFailure(i)
  /\ UNCHANGED <<driveVars, sessVars, authVars, argVars, stack, found_files, dfs, final_df,
                 pc, exc>>

\* requests.get and pd.read_excel succeed: dfs.append(df)
LoadOk ==
  /\ pc = "load" /\ i <= Len(found_files)
  /\ found_files[i].download_url # 0
  /\ \E k \in 0..MaxRows :
       LET df == ReadExcel(found_files[i].id, k)
       IN /\ dfs' = Append(dfs, df)
          /\ results' = Append(results, [status |-> "loaded", rows |-> df])
  /\ ops' = Append(ops, <<"get", i>>)
  /\ i' = i + 1
  /\ UNCHANGED <<driveVars, sessVars, authVars, argVars, stack, found_files, final_df,
                 pc, exc, ui>>

\* only the first frame is kept
ConcatFirst(frames) == Head(frames)
\* pd.concat(dfs, ignore_index=True): the frames' rows one after the other
RECURSIVE Concat(_)
Concat(frames) == IF frames = <<>> THEN <<>> ELSE Head(frames) \o Concat(Tail(frames))

\* load_excel_files returns dfs; pd.concat raises ValueError on an empty list
LoadReturn ==
  /\ pc = "load" /\ i > Len(found_files)
  /\ IF dfs = <<>>
     THEN /\ exc' = "ValueError"
          /\ pc' = "idle"
          /\ EndRun("exception")
          /\ UNCHANGED final_df
     ELSE /\ final_df' = DataFrame(Concat(dfs))
          /\ pc' = "display"
          /\ UNCHANGED <<exc, hist>>
  /\ UNCHANGED <<driveVars, session, widget, rendered, click, authVars, argVars, stack,
                 found_files, i, dfs, results, ui, ops>>

\* ---------------------------------------------------------------- main, after load_data
\* the number of frames that were loaded
LoadedCount == Len(dfs)
\* len(files_found) of lines 155 and 169
FoundCount == Len(found_files)

\* lines 153-229: the sidebar list, the result header, the tabs
Display ==
  /\ pc = "display"
  /\ ui' = IF found_files # <<>>
           THEN ui \o << <<"sidebar.info", "found", FoundCount>>,
                         <<"subheader", "results", folder_id>>,
                         <<"success", "found", FoundCount>>,
                         <<"tabs", "dataset", Len(final_df.rows)>> >>
           ELSE ui \o << <<"sidebar.error", "nofile", 0>>,
                         <<"subheader", "results", folder_id>>,
                         <<"error", "nofile", 0>> >>
  /\ pc' = "idle"
  /\ EndRun("end")
  /\ UNCHANGED <<driveVars, session, widget, rendered, click, authVars, argVars, loadVars,
                 stack, found_files, exc, ops>>

\* ---------------------------------------------------------------- authenticate_drive
\* What one call does with credentials.json in state c ("none": no stored
\* credentials), client_secrets.json present or not, and the pydrive2 step it
\* reaches (LocalWebserverAuth, Refresh or Authorize) raising or not.
AuthenticateDrive(c, hasSecrets, raises) ==
  IF c = "none"
  THEN IF hasSecrets
       THEN IF raises
            THEN [result |-> None, message |-> "error", creds |-> c]
            ELSE [result |-> "drive", message |-> "none", creds |-> "valid"]
       ELSE [result |-> None, message |-> "sidebar.error", creds |-> c]
  ELSE IF raises
       THEN [result |-> "raised", message |-> "none", creds |-> c]
       ELSE [result |-> "drive", message |-> "none", creds |-> c]

AuthCall(c, hasSecrets, raises) ==
  [creds |-> c, secrets |-> hasSecrets, raises |-> raises,
   result |-> AuthenticateDrive(c, hasSecrets, raises).result,
   message |-> AuthenticateDrive(c, hasSecrets, raises).message]

AuthMessages(o) == IF o.message = "none" THEN <<>> ELSE << <<o.message, "auth", 0>> >>

\* ---------------------------------------------------------------- main, up to load_data
\* the state a run starts from: every local of the script is fresh
FreshRun(c) ==
  /\ click' = c
  /\ pc' = "start"
  /\ drive' = None
  /\ auth' = <<>>
  /\ folder_id' = 0
  /\ selected_folder' = <<>>
  /\ keyword' = <<>>
  /\ stack' = <<>>
  /\ found_files' = <<>>
  /\ i' = 0
  /\ dfs' = <<>>
  /\ results' = <<>>
  /\ final_df' = NoFrame
  /\ exc' = "none"
  /\ ui' = <<>>
  /\ ops' = <<>>
  /\ rendered' = {}

\* st.rerun(): the running script stops there and the runner starts it again
Rerun(pressed) ==
  /\ hist' = [hist EXCEPT !.last = Finished("rerun"), !.started = @ + 1,
                          !.pressed = pressed, !.pressedAtStart = pressed]
  /\ FreshRun("rerun")

\* line 118: drive = authenticate_drive()
Authenticate ==
  /\ pc = "start"
  /\ \E raises \in BOOLEAN :
       LET o == AuthenticateDrive(creds, secrets, raises)
       IN /\ auth' = Append(auth, AuthCall(creds, secrets, raises))
          /\ creds' = o.creds
          /\ IF o.result = "raised"
             THEN /\ exc' = "AuthError"
                  /\ pc' = "idle"
                  /\ EndRun("exception")
                  /\ UNCHANGED <<drive, ui>>
             ELSE /\ drive' = o.result
                  /\ ui' = ui \o AuthMessages(o)
                           \o (IF o.result = "drive"
                               THEN << <<"sidebar.success", "connected", 0>> >> ELSE <<>>)
                  /\ pc' = IF o.result = "drive" THEN "roots" ELSE "connect"
                  /\ UNCHANGED <<exc, hist>>
  /\ UNCHANGED <<driveVars, secrets, session, widget, rendered, click, argVars, loadVars,
                 stack, found_files, ops>>

\* lines 120-124, the connect button was not the user's action: main returns
ConnectShown ==
  /\ pc = "connect" /\ click # "connect"
  /\ rendered' = {"connect"}
  /\ pc' = "idle"
  /\ EndRun("end")
  /\ UNCHANGED <<driveVars, authVars, session, widget, click, argVars, loadVars, stack,
                 found_files, exc, ui, ops>>

\* lines 120-124, the connect button was pressed: a second authenticate_drive,
\* then st.rerun() if it gave a drive
ConnectPressed ==
  /\ pc = "connect" /\ click = "connect"
  /\ \E raises \in BOOLEAN :
       LET o == AuthenticateDrive(creds, secrets, raises)
       IN /\ creds' = o.creds
          /\ IF o.result = "drive"
             THEN /\ Rerun(hist.pressed)
                  /\ UNCHANGED <<secrets>>
             ELSE /\ auth' = Append(auth, AuthCall(creds, secrets, raises))
                  /\ ui' = ui \o AuthMessages(o)
                  /\ rendered' = {"connect"}
                  /\ exc' = IF o.result = "raised" THEN "AuthError" ELSE exc
                  /\ pc' = "idle"
                  /\ EndRun(IF o.result = "raised" THEN "exception" ELSE "end")
                  /\ UNCHANGED <<secrets, drive, click, argVars, loadVars, stack,
                                 found_files, ops>>
  /\ UNCHANGED <<driveVars, session, widget>>

\* get_root_folders: {f['title']: f['id'] for f in file_list}, a later folder
\* of the same title replacing an earlier one
RootTitles == {title[f] : f \in driveFolders}
GetRootFolders ==
  [t \in RootTitles |-> CHOOSE f \in driveFolders :
      /\ title[f] = t
      /\ \A g \in driveFolders : title[g] = t => g <= f]
\* the selectbox shows the widget's value, or the first option when it has none
FirstOption == title[CHOOSE f \in driveFolders : \A g \in driveFolders : f <= g]
Selected == IF widget.folder \in RootTitles THEN widget.folder ELSE FirstOption

\* lines 128-140: list the folders, return if there is none, read the widgets
Roots ==
  /\ pc = "roots"
  /\ ops' = Append(ops, <<"roots", 0>>)
  /\ IF driveFolders = {}
     THEN /\ ui' = Append(ui, <<"warning", "nofolder", 0>>)
          /\ pc' = "idle"
          /\ EndRun("end")
          /\ UNCHANGED <<argVars, rendered>>
     ELSE /\ selected_folder' = Selected
          /\ folder_id' = GetRootFolders[Selected]
          /\ keyword' = widget.keyword
          /\ rendered' = {"search"}
          /\ pc' = "button"
          /\ UNCHANGED <<ui, hist>>
  /\ UNCHANGED <<driveVars, authVars, session, widget, click, loadVars, stack, found_files,
                 exc>>

\* the search runs whether or not the button was ever pressed
AlwaysRun == TRUE
\* getattr(st.session_state, "run_search", False)
ShouldRun == session.run_search

\* the button counts as pressed as long as run_search is set
PressedOrFlag == click = "search" \/ session.run_search
\* st.sidebar.button(...) at line 142: True in the run its press started
ButtonPressed == click = "search"

\* lines 142-148: the search button was pressed
SearchPressed ==
  /\ pc = "button" /\ ButtonPressed
  /\ session' = [run_search |-> TRUE, keyword |-> keyword, folder_id |-> folder_id,
                 selected_folder |-> selected_folder, extension |-> extension]
  /\ Rerun(TRUE)
  /\ UNCHANGED <<driveVars, creds, secrets, widget>>

\* line 150 with run_search set: load_data(drive, folder_id, keyword, extension)
RunSearch ==
  /\ pc = "button" /\ ~ButtonPressed
  /\ ShouldRun
  /\ pc' = "load_data"
  /\ UNCHANGED <<driveVars, sessVars, authVars, argVars, loadVars, stack, found_files,
                 exc, ui, ops>>

\* line 150 without run_search: main ends
NoSearch ==
  /\ pc = "button" /\ ~ButtonPressed
  /\ ~ShouldRun
  /\ pc' = "idle"
  /\ EndRun("end")
  /\ UNCHANGED <<driveVars, session, widget, rendered, click, authVars, argVars, loadVars,
                 stack, found_files, exc, ui, ops>>

\* ---------------------------------------------------------------- the user and the world
\* a user action starts one run of the script
UserRun(c) ==
  /\ hist' = [hist EXCEPT !.started = 1, !.pressedAtStart = hist.pressed]
  /\ FreshRun(c)

PressConnect ==
  /\ pc = "idle" /\ "connect" \in rendered
  /\ UserRun("connect")
  /\ UNCHANGED <<driveVars, creds, secrets, session, widget>>

PressSearch ==
  /\ pc = "idle" /\ "search" \in rendered
  /\ UserRun("search")
  /\ UNCHANGED <<driveVars, creds, secrets, session, widget>>

ChangeWidget ==
  /\ pc = "idle" /\ "search" \in rendered
  /\ \E kw \in Keywords, t \in RootTitles :
       /\ [keyword |-> kw, folder |-> t] # widget
       /\ widget' = [keyword |-> kw, folder |-> t]
  /\ UserRun("widget")
  /\ UNCHANGED <<driveVars, creds, secrets, session>>

\* the stored access token runs out between two runs
Expire ==
  /\ pc = "idle" /\ creds = "valid"
  /\ creds' = "expired"
  /\ UNCHANGED <<driveVars, secrets, sessVars, drive, auth, argVars, loadVars, stack,
                 found_files, pc, exc, ui, ops>>

\* ---------------------------------------------------------------- initial states
TitleOf(t4, t5) == [n \in Nodes |-> IF n \in FolderIds THEN FolderTitle[n] ELSE IF n = 4 THEN t4 ELSE t5]

\* the folder trees searched from folder 1: every node may sit in several
\* folders, and a folder may (directly or not) contain itself
ParentChoices ==
  [n \in Nodes |-> IF n = 1 THEN {{}, {3}}
                   ELSE IF n = 3 THEN SUBSET {1, 2}
                   ELSE IF n = 5 THEN {{1}, {3}}
                   ELSE SUBSET FolderIds]
Trees == {p \in [Nodes -> SUBSET FolderIds] : \A n \in Nodes : p[n] \in ParentChoices[n]}

NoRun ==
  [click |-> "none", pressedAtStart |-> FALSE, loaded |-> FALSE, how |-> "none", at |-> "none"]
NoSession ==
  [run_search |-> FALSE, keyword |-> <<>>, folder_id |-> 0, selected_folder |-> <<>>,
   extension |-> <<>>]

\* main has reached line 150 in the run that follows a press of the search button
InitData ==
  /\ driveFolders = FolderIds
  /\ parents \in Trees
  /\ \E t4 \in Titles, t5 \in {Str("t", ".", "x"), Str("q", ".", "x")} : title = TitleOf(t4, t5)
  /\ hasUrl \in {[n \in Nodes |-> n = 5 \/ (n = 4 /\ b)] : b \in BOOLEAN}
  /\ creds = "valid" /\ secrets = TRUE
  /\ keyword \in Keywords
  /\ folder_id = 1
  /\ selected_folder = FolderTitle[1]
  /\ widget = [keyword |-> keyword, folder |-> selected_folder]
  /\ session = [run_search |-> TRUE, keyword |-> keyword, folder_id |-> 1,
                selected_folder |-> selected_folder, extension |-> extension]
  /\ rendered = {"search"}
  /\ click = "rerun"
  /\ pc = "load_data"
  /\ drive = "drive"
  /\ auth = <<AuthCall("valid", TRUE, FALSE)>>
  /\ stack = <<>> /\ found_files = <<>> /\ i = 0 /\ dfs = <<>> /\ results = <<>>
  /\ final_df = NoFrame
  /\ exc = "none"
  /\ ui = << <<"sidebar.success", "connected", 0>> >>
  /\ ops = << <<"roots", 0>> >>
  /\ hist = [pressed |-> TRUE, pressedAtStart |-> TRUE, started |-> 2,
             last |-> [click |-> "search", pressedAtStart |-> FALSE, loaded |-> FALSE,
                       how |-> "rerun", at |-> "button"]]

NextData ==
  \/ FindFiles \/ SearchFolder \/ SearchFile \/ SearchReturn \/ FindReturn
  \/ LoadSkip \/ LoadFail \/ LoadOk \/ LoadReturn \/ Display

SpecData == InitData /\ [][NextData]_vars
\* the script is single-threaded and nothing suspends it: a step that can be
\* taken is taken
FairSpecData == SpecData /\ WF_vars(NextData)

\* the accounts the session runs against: one without any folder, and one with
\* folder 1 holding folders 2 and 3, file 4 in folders 1 and 2, file 5 in folder 3
SampleParents == [n \in Nodes |-> IF n = 1 THEN {} ELSE IF n = 4 THEN {1, 2} ELSE IF n = 5 THEN {3} ELSE {1}]

\* the page is opened: the first run of the script
InitMain ==
  /\ driveFolders \in {{}, FolderIds}
  /\ parents = SampleParents
  /\ title = TitleOf(Str("T", ".", "x"), Str("q", ".", "x"))
  /\ hasUrl = [n \in Nodes |-> n = 4]
  /\ creds \in {"none", "expired", "valid"}
  /\ secrets \in BOOLEAN
  /\ session = NoSession
  /\ widget = [keyword |-> <<"t">>, folder |-> <<>>]
  /\ rendered = {}
  /\ click = "load"
  /\ pc = "start"
  /\ drive = None
  /\ auth = <<>>
  /\ folder_id = 0 /\ selected_folder = <<>> /\ keyword = <<>>
  /\ stack = <<>> /\ found_files = <<>> /\ i = 0 /\ dfs = <<>> /\ results = <<>>
  /\ final_df = NoFrame
  /\ exc = "none"
  /\ ui = <<>>
  /\ ops = <<>>
  /\ hist = [pressed |-> FALSE, pressedAtStart |-> FALSE, started |-> 1, last |-> NoRun]

Next ==
  \/ Authenticate \/ ConnectShown \/ ConnectPressed \/ Roots
  \/ SearchPressed \/ RunSearch \/ NoSearch
  \/ FindFiles \/ SearchFolder \/ SearchFile \/ SearchReturn \/ FindReturn
  \/ LoadSkip \/ LoadFail \/ LoadOk \/ LoadReturn \/ Display
  \/ PressConnect \/ PressSearch \/ ChangeWidget \/ Expire

Spec == InitMain /\ [][Next]_vars

\* ================================================================ properties
IsGet(o) == o[1] = "get"
Gets == SelectSeq(ops, IsGet)
Warnings == SelectSeq(ui, LAMBDA m : m[1] = "warning" /\ m[2] \in {"download", "load"})
\* load_excel_files has gone through the whole list of found files
LoadFinished == found_files # <<>> /\ Len(results) = Len(found_files)
\* load_data has returned to main, or has raised
LoadDataLeft == pc \in {"display", "idle"}
\* find_files has returned its list
FindDone == Loaded /\ pc \in {"load", "display", "idle"} /\ exc # "RecursionError"
NotLoaded == {k \in 1..Len(results) : results[k].status # "loaded"}

\* C1: whichever found files fail to download or parse or lack a download URL,
\* all of them included, load_data returns to main without an uncaught
\* exception and every failing file has produced one warning.
C1_FailuresBecomeWarnings ==
  (LoadFinished /\ LoadDataLeft) =>
    /\ exc = "none"
    /\ Len(Warnings) = Cardinality(NotLoaded)
    /\ \A k \in NotLoaded : \E w \in 1..Len(Warnings) : Warnings[w][3] = k

\* ---------------------------------------------------------------- C3
RECURSIVE RowsBefore(_)
\* rows of the spreadsheets loaded from the first k found files
RowsBefore(k) == IF k = 0 THEN 0 ELSE RowsBefore(k - 1) + Len(results[k].rows)

\* C3: the table load_data returns holds exactly the rows of the loaded
\* spreadsheets, in the order the files were found, none lost or duplicated:
\* row j of the k-th found file sits at position (rows before k) + j, and the
\* row count is the sum of the loaded spreadsheets' row counts; skipped and
\* failed files contribute no row.
C3_RowWiseUnion ==
  (~final_df.isNone) =>
    /\ LoadFinished
    /\ Len(final_df.rows) = RowsBefore(Len(results))
    /\ \A k \in 1..Len(results) : \A j \in 1..Len(results[k].rows) :
         final_df.rows[RowsBefore(k - 1) + j] = <<found_files[k].id, j>>
    /\ \A p \in 1..Len(final_df.rows) : \E k \in 1..Len(results) :
         results[k].status = "loaded" /\ final_df.rows[p][1] = found_files[k].id

C3_Witness ==
  /\ ~final_df.isNone
  /\ \E a, b, c \in 1..Len(results) :
       /\ a < b /\ b < c
       /\ results[a].status = "loaded" /\ Len(results[a].rows) = 2
       /\ results[b].status = "failed"
       /\ results[c].status = "loaded" /\ Len(results[c].rows) >= 1

\* ---------------------------------------------------------------- C6
\* C6: load_excel_files asks for each found file at most once, never for a file
\* without a download URL, in the order of the list, and every file with a URL
\* that the loop has passed has been asked for, whatever failed before it.
C6_SequentialNoRetry ==
  /\ \A a, b \in 1..Len(Gets) : a < b => Gets[a][2] < Gets[b][2]
  /\ \A a \in 1..Len(Gets) :
       Gets[a][2] \in 1..Len(found_files) /\ found_files[Gets[a][2]].download_url # 0
  /\ \A k \in 1..Len(results) :
       found_files[k].download_url # 0 => \E a \in 1..Len(Gets) : Gets[a][2] = k
  /\ pc = "load" => i = Len(results) + 1

C6_Witness ==
  /\ LoadFinished
  /\ \E a, b, c \in 1..Len(results) :
       /\ a < b /\ b < c
       /\ results[a].status = "failed"
       /\ results[b].status = "skipped"
       /\ results[c].status \in {"failed", "loaded"}
       /\ \E g \in 1..Len(Gets) : Gets[g][2] = c

\* ---------------------------------------------------------------- C10
CountMessages == SelectSeq(ui, LAMBDA m : m[1] \in {"sidebar.info", "success"} /\ m[2] = "found")
\* spreadsheets that hold at least one row of the combined dataset
Contributing == {k \in 1..Len(results) : results[k].status = "loaded" /\ results[k].rows # <<>>}

\* C10: with no matching file load_data returns (None, None) without a download
\* request and main shows the no-file error and no tabs; a file count shown in
\* the UI is the number of files found, which is at least the number of
\* spreadsheets that contribute rows (and of frames loaded).
C10_CountIsFound ==
  /\ (Loaded /\ LoadDataLeft /\ found_files = <<>> /\ exc = "none") =>
       /\ final_df.isNone
       /\ Gets = <<>>
       /\ \A m \in 1..Len(ui) : ui[m][1] # "tabs"
       /\ pc = "idle" => \E m \in 1..Len(ui) : ui[m] = <<"error", "nofile", 0>>
  /\ \A m \in 1..Len(CountMessages) :
       /\ found_files # <<>>
       /\ CountMessages[m][3] = Len(found_files)
       /\ CountMessages[m][3] >= Cardinality(Contributing)
       /\ CountMessages[m][3] >= Len(dfs)
  /\ (Loaded /\ pc = "idle" /\ found_files # <<>> /\ exc = "none") => Len(CountMessages) = 2

C10_Witness ==
  /\ pc = "idle"
  /\ Len(CountMessages) = 2
  /\ CountMessages[1][3] = 3
  /\ Len(dfs) = 1
  /\ \E k \in 1..Len(results) : results[k].status = "skipped"

\* ---------------------------------------------------------------- C4
\* The files a depth-first, pre-order walk of the listings meets below folder
\* fid, each with its node and the titles of the entries leading to it; fuel
\* is the nesting the walk may still enter.
RECURSIVE WalkList(_, _, _)
WalkList(list, trail, fuel) ==
  IF list = <<>> THEN <<>>
  ELSE LET n == Head(list)
           here == IF IsFolder(n)
                   THEN IF fuel = 0 THEN <<>>
                        ELSE WalkList(ListFile(n), Append(trail, title[n]), fuel - 1)
                   ELSE << [id |-> n, titles |-> Append(trail, title[n])] >>
       IN here \o WalkList(Tail(list), trail, fuel)

PathsToFiles == WalkList(ListFile(folder_id), <<>>, Cardinality(FolderIds))
\* the paths whose file has a title that contains the keyword, whatever the
\* case of either, and ends with the extension as written
Wanted ==
  SelectSeq(PathsToFiles,
            LAMBDA e : /\ \E k \in 0..(Len(title[e.id]) - Len(keyword)) :
                            \A c \in 1..Len(keyword) :
                              LowerChar(title[e.id][k + c]) = LowerChar(keyword[c])
                       /\ \A c \in 1..Len(extension) :
                            /\ Len(title[e.id]) >= Len(extension)
                            /\ title[e.id][Len(title[e.id]) - Len(extension) + c] = extension[c])

RECURSIVE JoinSlash(_)
\* "/".join(titles)
JoinSlash(titles) ==
  IF titles = <<>> THEN <<>>
  ELSE IF Len(titles) = 1 THEN Head(titles)
  ELSE Head(titles) \o <<"/">> \o JoinSlash(Tail(titles))

RECURSIVE SlashEach(_)
\* every title preceded by "/"
SlashEach(titles) ==
  IF titles = <<>> THEN <<>> ELSE <<"/">> \o Head(titles) \o SlashEach(Tail(titles))

\* all of C4 but the form of the path
C4_Entries(wanted) ==
  /\ Len(found_files) = Len(wanted)
  /\ \A k \in 1..Len(found_files) :
       /\ found_files[k].id = wanted[k].id
       /\ found_files[k].id \in FileIds
       /\ found_files[k].name = title[found_files[k].id]
       /\ found_files[k].download_url = (IF hasUrl[found_files[k].id] THEN found_files[k].id ELSE 0)

\* C4 as written: one entry per path from the start folder to a non-folder
\* file whose title contains the keyword case-insensitively and ends with the
\* extension, no folder, in depth-first pre-order, each with a path equal to
\* the "/"-joined titles from the start folder down to the file.
C4_AsWritten ==
  FindDone =>
    LET wanted == Wanted
    IN /\ C4_Entries(wanted)
       /\ \A k \in 1..Len(found_files) : found_files[k].path = JoinSlash(wanted[k].titles)

\* C4 amended: the same, the path being every title below the start folder
\* down to the file, each preceded by "/" (so it starts with "/").
C4_FindFiles ==
  FindDone =>
    LET wanted == Wanted
    IN /\ C4_Entries(wanted)
       /\ \A k \in 1..Len(found_files) : found_files[k].path = SlashEach(wanted[k].titles)

\* a file found twice, once through the folder whose title matches too, with a
\* title that differs from the keyword in case, and another file met but not
\* matching
C4_Witness ==
  /\ FindDone
  /\ Len(found_files) >= 2
  /\ \E a, b \in 1..Len(found_files) :
       /\ a < b
       /\ found_files[a].id = found_files[b].id
       /\ found_files[a].name = Str("T", ".", "x")
       /\ found_files[b].path = <<"/">> \o FolderTitle[2] \o <<"/">> \o Str("T", ".", "x")
  /\ \E n \in FileIds : \E k \in 1..Len(PathsToFiles) :
       PathsToFiles[k].id = n /\ title[n] = Str("q", ".", "x") /\ keyword = <<"t">>

\* ---------------------------------------------------------------- C5
RECURSIVE Below(_)
\* the folders reachable from the folders of S through the listings
Below(S) ==
  LET T == S \cup {n \in driveFolders : parents[n] \cap S # {}}
  IN IF T = S THEN S ELSE Below(T)
SubFolders(f) == Below({n \in driveFolders : f \in parents[n]})
\* no folder of the searched hierarchy is reachable from itself
Acyclic == \A f \in Below({folder_id}) : f \notin SubFolders(f)

RECURSIVE SumOver(_, _, _)
RECURSIVE PathCount(_, _)
SumOver(S, fuel, acc) ==
  IF S = {} THEN acc
  ELSE LET p == CHOOSE x \in S : TRUE IN SumOver(S \ {p}, fuel, acc + PathCount(p, fuel))
\* the number of paths of at most fuel steps from the start folder to f
PathCount(f, fuel) ==
  (IF f = folder_id THEN 1 ELSE 0)
  + (IF fuel = 0 THEN 0 ELSE SumOver(parents[f] \cap driveFolders, fuel - 1, 0))

Listings(f) == Len(SelectSeq(ops, LAMBDA o : o = <<"list", f>>))

AuthFailed(a) == a.raises \/ (a.creds = "none" /\ ~a.secrets)

\* C2: in every credential state, a call of authenticate_drive whose
\* authentication fails returns None after a UI error instead of raising, and
\* any other call returns a drive.
C2_AuthFailureShown ==
  \A k \in 1..Len(auth) :
    IF AuthFailed(auth[k])
    THEN auth[k].result = None /\ auth[k].message \in {"error", "sidebar.error"}
    ELSE auth[k].result = "drive"

\* ---------------------------------------------------------------- C7
\* positions before line 142, where a run stops without having read the search button
BeforeButton == {"start", "connect", "roots"}

\* C7 as written: every user action starts exactly one run, which runs to its
\* end, is not interrupted and is followed by no automatic run.
C7_AsWritten == hist.started = 1 /\ hist.last.how # "rerun"

\* C7 amended: every user action starts exactly one run; that run goes on
\* until main returns or raises, unless it reads the pressed search button, or
\* the pressed connect button with a second authentication that gives a
\* drive: it then stops at st.rerun() and exactly one automatic run follows,
\* which st.rerun() never stops.
C7_OneRunOrOneRerun ==
  /\ hist.started \in {1, 2}
  /\ (click = "rerun") = (hist.started = 2)
  /\ (click = "rerun" /\ pc # "idle") => hist.last.how = "rerun"
  /\ hist.last.how = "rerun" =>
       \/ hist.last.click = "search" /\ hist.last.at = "button"
       \/ hist.last.click = "connect" /\ hist.last.at = "connect"
  /\ (hist.last.click = "search" /\ hist.last.at \notin BeforeButton) => hist.last.how = "rerun"
  /\ pc = "idle" => hist.last.how \in {"end", "exception"}

\* the automatic run that followed a press of the search button has ended
C7_Witness ==
  /\ pc = "idle"
  /\ hist.started = 2
  /\ hist.last.click = "rerun" /\ hist.last.how = "end" /\ hist.last.loaded

\* ---------------------------------------------------------------- C8
InLoadData == pc \in {"load_data", "find", "load", "display"}

\* C8: a run makes no Drive listing, search or download unless its
\* authenticate_drive returned a drive; load_data runs only in a run that finds
\* session_state.run_search true, the search button having been pressed in an
\* earlier run; a run that finds no folder stops before any search.
C8_GuardedDriveUse ==
  /\ ops # <<>> =>
       /\ drive = "drive"
       /\ auth # <<>> /\ auth[Len(auth)].result = "drive"
  /\ (Loaded \/ InLoadData) =>
       /\ session.run_search
       /\ hist.pressedAtStart
       /\ click # "search"
  /\ driveFolders = {} => ~InLoadData /\ \A k \in 1..Len(ops) : ops[k] = <<"roots", 0>>

\* a run has searched and downloaded
C8_Witness ==
  /\ pc = "idle" /\ exc = "none"
  /\ Loaded /\ Gets # <<>>
  /\ \E k \in 1..Len(auth) : auth[k].creds = "expired"

\* ---------------------------------------------------------------- C9
\* the folders and files below the folder the selectbox shows
UnderSelected == Below({GetRootFolders[Selected]}) \cup
                 {n \in FileIds : parents[n] \cap Below({GetRootFolders[Selected]}) # {}}

\* the search of this run used what the widgets show
UsesWidgets ==
  (driveFolders # {} /\ (Loaded \/ InLoadData)) =>
    /\ keyword = widget.keyword
    /\ folder_id = GetRootFolders[Selected]
    /\ \A k \in 1..Len(found_files) :
         /\ Matches(widget.keyword, found_files[k].name, extension)
         /\ found_files[k].id \in UnderSelected
    /\ \A k \in 1..Len(ops) : ops[k][1] = "list" => ops[k][2] \in UnderSelected

\* C9 as written: once the button has been pressed run_search stays true, and
\* every later run searches and downloads again with what the widgets show
\* (stated of the runs that no exception ended).
C9_AsWritten ==
  /\ hist.pressed => session.run_search
  /\ (hist.last.pressedAtStart /\ hist.last.how \in {"end", "rerun"}) => hist.last.loaded
  /\ UsesWidgets

\* C9 amended: once the button has been pressed run_search stays true, and
\* every later run that reaches line 150 (its authentication gives a drive, a
\* folder is listed, the button is not pressed again) calls load_data with what
\* the widgets show, not with what the session state stored at the press.
C9_RunSearchSticks ==
  /\ hist.pressed => session.run_search
  /\ (hist.last.pressedAtStart /\ hist.last.click # "search"
        /\ hist.last.at \notin BeforeButton /\ hist.last.how # "none") => hist.last.loaded
  /\ UsesWidgets

\* a search made with a keyword and a folder other than the stored ones
C9_Witness ==
  /\ Loaded /\ pc = "idle"
  /\ found_files # <<>>
  /\ session.run_search
  /\ session.keyword # widget.keyword
  /\ session.folder_id # folder_id

====
